---- MODULE Spec2Model ----
(***************************************************************************)
(* Ledger transaction engine of the banking app: transferMoney and         *)
(* processNFCPayment (src/src/services/transaction.ts) running against the *)
(* Firestore collections "users" and "transactions".  Every await of a     *)
(* store operation is one step; invocations interleave at these steps.     *)
(* A store operation either takes effect and resolves, or rejects without  *)
(* taking effect (getDoc/addDoc/updateDoc reject only when the backend     *)
(* refuses the operation or cannot be reached).  The module also covers    *)
(* getTransactionStatistics (src/src/services/webauthn.ts) and the QR       *)
(* scanner's processScannedQR (src/unnamed/part_004), each with its own     *)
(* specification.                                                          *)
(***************************************************************************)
EXTENDS Integers, Sequences, FiniteSets, TLC

\* ---- bounds --------------------------------------------------------------
MaxBalance == 1    \* balance of a funded account before the first invocation
                   \* (an account is empty or funded; transfers produce the rest)
MaxAmount == 1     \* largest requested amount
MaxTx == 2         \* stored transaction records when statistics are queried

Procs == {1, 2}                \* invocations, numbered in the order they start
Ops == {"getSender", "getReceiver", "addDoc", "debit", "credit", "complete",
        "markFailed", "getDocs"}   \* the awaited store operations, by position
Writes == {"addDoc", "debit", "credit"}   \* the writes that move money or record it
\* amounts a request may carry: callers pass payload amounts on unvalidated, so
\* a negative amount (-1 stands for all of them) and zero are among them
Amounts == {-1} \cup (0..MaxAmount)

\* ---- values --------------------------------------------------------------
NoRef == 0         \* no transaction reference (ids are 1, 2, ... in insertion order)

NoReq == [op |-> "none", senderId |-> "", receiverId |-> "", amount |-> 0]
NoResult == [success |-> FALSE, transactionId |-> NoRef, error |-> ""]

\* {totalIncome: 0, totalExpenses: 0, totalTransactions: 0, categories: {}}
EmptyStatistics == [totalIncome |-> 0, totalExpenses |-> 0, totalTransactions |-> 0,
                    categories |-> <<>>]
\* scannedValue before anything was scanned
NoScan == [json |-> "none", type |-> "", senderId |-> "", receiverId |-> "",
           amount |-> 0]
\* nothing has been read from an NFC tag
NoTag == [json |-> "none", type |-> "", senderId |-> "", receiverId |-> "",
          amount |-> 0, description |-> ""]
NoStats == [userId |-> "", startDate |-> 0, endDate |-> 0, value |-> EmptyStatistics]

VARIABLES
  balance,        \* users/{id}.accountBalance
  balance0,       \* history: the balances before the first invocation
  transactions,   \* collection "transactions", in insertion order; id = index
  pc,             \* position of each invocation
  req,            \* arguments of the running invocation
  senderData,     \* senderData.accountBalance (set by the sender read)
  receiverData,   \* receiverDoc.data().accountBalance (set by the receiver read)
  transactionRef, \* id returned by addDoc
  result,         \* value returned (transferMoney) / callback invoked (processNFCPayment)
  debited,        \* history: the invocation's sender update was applied
  credited,       \* history: the invocation's receiver update was applied
  store,          \* the answers the store may give to each operation
  stats,          \* the last call of getTransactionStatistics and what it returned
  scannedValue,   \* QRCodeTransaction: the text of the last scanned code
  toast,          \* QRCodeTransaction: the last notification shown
  viaQR,          \* the invocation was made by processScannedQR, which awaits it
  nfcData,        \* history: the text of the last NFC tag read
  nfcScanStatus,  \* NFC payment dialog: idle, scanning, processing, success, error
  viaNFC,         \* the invocation was made by the NFC dialog, with its callbacks
  issued,         \* history: store writes each invocation has issued, by kind
  callbacks       \* history: calls of onSuccess / onError by each invocation

\* state of the client screens (statistics page, QR scanner)
client == <<stats, scannedValue, toast, viaQR, nfcData, nfcScanStatus, viaNFC>>

vars == <<balance, balance0, transactions, pc, req, senderData, receiverData,
          transactionRef, result, debited, credited, store, client, issued,
          callbacks>>

Users == DOMAIN balance        \* documents that exist in collection "users"
AccountIds == Users \cup {"Z"} \* ids a request may name; "Z" has no document
TxIds == 1..Len(transactions)  \* documents in collection "transactions"

\* the store may reject / may carry out the operation an invocation awaits
Rejects(op) == "reject" \in store[op]
Resolves(op) == "resolve" \in store[op]

\* a store that may answer every operation either way
AnyAnswer == [op \in Ops |-> {"resolve", "reject"}]

\* ---- helpers -------------------------------------------------------------
\* Timestamp.now(): a logical clock that ticks with every record written
Now == Len(transactions) + 1

RECURSIVE SumBalances(_, _)
SumBalances(b, S) ==
  IF S = {} THEN 0
  ELSE LET a == CHOOSE x \in S : TRUE IN b[a] + SumBalances(b, S \ {a})

\* faulty variant: the funds check is off by one
InsufficientFundsOffByOne(bal, amount) == bal + 1 < amount

\* senderData.accountBalance < amount
InsufficientFunds(bal, amount) == bal < amount

\* faulty variant: the sender update adds the amount (sign slip)
DebitValueAdds(bal, amount) == bal + amount

\* the value written to the sender's accountBalance
DebitValue(bal, amount) == bal - amount

\* the value written to the receiver's accountBalance
CreditValue(bal, amount) == bal + amount

\* updateDoc(doc(db, "transactions", id), {status})
SetStatus(id, status) == [transactions EXCEPT ![id].status = status]

\* faulty variant: a failure without its reason
FailureNoReason(error) == [success |-> FALSE, transactionId |-> NoRef, error |-> ""]

\* {success: false, error}
Failure(error) == [success |-> FALSE, transactionId |-> NoRef, error |-> error]

\* {success: true, transactionId}
Success(id) == [success |-> TRUE, transactionId |-> id, error |-> ""]

\* the invocation ends: its arguments and locals go out of scope
Return(p, res) ==
  /\ pc' = [pc EXCEPT ![p] = "done"]
  /\ result' = [result EXCEPT ![p] = res]
  /\ req' = [req EXCEPT ![p] = NoReq]
  /\ senderData' = [senderData EXCEPT ![p] = 0]
  /\ receiverData' = [receiverData EXCEPT ![p] = 0]

\* one more write of the kind goes to the store (whether or not it is applied)
Issue(p, w) == [issued EXCEPT ![p][w] = @ + 1]

\* the invocation continues at the next await
Goto(p, label) ==
  /\ pc' = [pc EXCEPT ![p] = label]
  /\ UNCHANGED <<result, req, senderData, receiverData>>

\* no invocation has started and the client screens show nothing
NothingRunning ==
  /\ balance0 = balance
  /\ pc = [p \in Procs |-> "idle"]
  /\ req = [p \in Procs |-> NoReq]
  /\ senderData = [p \in Procs |-> 0]
  /\ receiverData = [p \in Procs |-> 0]
  /\ transactionRef = [p \in Procs |-> NoRef]
  /\ result = [p \in Procs |-> NoResult]
  /\ debited = [p \in Procs |-> FALSE]
  /\ credited = [p \in Procs |-> FALSE]
  /\ stats = NoStats
  /\ scannedValue = NoScan
  /\ toast = ""
  /\ viaQR = [p \in Procs |-> FALSE]
  /\ nfcData = NoTag
  /\ viaNFC = [p \in Procs |-> FALSE]
  /\ issued = [p \in Procs |-> [w \in Writes |-> 0]]
  /\ callbacks = [p \in Procs |-> [onSuccess |-> 0, onError |-> 0]]

\* no invocation has started and no transaction record exists
Fresh == transactions = <<>> /\ nfcScanStatus = "idle" /\ NothingRunning

Init ==
  /\ balance \in [{"A", "B"} -> {0, MaxBalance}]
  /\ store = AnyAnswer
  /\ Fresh

\* ---- invocation ----------------------------------------------------------
Invoke(p, op, s, r, amount) ==
  /\ pc[p] = "idle"
  /\ \A q \in Procs : q < p => pc[q] # "idle"
  /\ req' = [req EXCEPT ![p] = [op |-> op, senderId |-> s, receiverId |-> r,
                                amount |-> amount]]
  /\ pc' = [pc EXCEPT ![p] = "getSender"]
  /\ UNCHANGED <<balance, balance0, transactions, senderData, receiverData,
                 transactionRef, result, debited, credited, store, issued,
                 callbacks>>

\* ---- transferMoney -------------------------------------------------------
\* return {success: false, error} from a failed check
TMReject(p, error) == Return(p, Failure(error))

\* outer catch: a store operation outside the inner try rejected
TMOuterCatch(p) == Rejects(pc[p]) /\ Return(p, Failure("Transaction failed"))

\* inner catch: the balance updates or the completed write rejected
TMInnerCatch(p) == Rejects(pc[p]) /\ Goto(p, "markFailed")

\* faulty variant: the sender's exists() check is missing; an absent document reads
\* as balance 0
TMGetSenderNoExistsCheck(p) ==
  /\ pc[p] = "getSender" /\ req[p].op = "transferMoney"
  /\ UNCHANGED <<balance, balance0, transactions, transactionRef, debited,
                 credited, store, client, issued,
                 callbacks>>
  /\ \/ TMOuterCatch(p)
     \/ Resolves(pc[p]) /\
        LET bal == IF req[p].senderId \in Users THEN balance[req[p].senderId] ELSE 0 IN
        IF InsufficientFunds(bal, req[p].amount)
          THEN TMReject(p, "Insufficient funds")
          ELSE /\ pc' = [pc EXCEPT ![p] = "getReceiver"]
               /\ senderData' = [senderData EXCEPT ![p] = bal]
               /\ UNCHANGED <<result, req, receiverData>>

TMGetSender(p) ==
  /\ pc[p] = "getSender" /\ req[p].op = "transferMoney"
  /\ UNCHANGED <<balance, balance0, transactions, transactionRef, debited,
                 credited, store, client, issued,
                 callbacks>>
  /\ \/ TMOuterCatch(p)
     \/ /\ Resolves(pc[p]) /\ req[p].senderId \notin Users
        /\ TMReject(p, "Sender account not found")
     \/ /\ Resolves(pc[p]) /\ req[p].senderId \in Users
        /\ IF InsufficientFunds(balance[req[p].senderId], req[p].amount)
             THEN TMReject(p, "Insufficient funds")
             ELSE /\ pc' = [pc EXCEPT ![p] = "getReceiver"]
                  /\ senderData' = [senderData EXCEPT ![p] = balance[req[p].senderId]]
                  /\ UNCHANGED <<result, req, receiverData>>

TMGetReceiver(p) ==
  /\ pc[p] = "getReceiver" /\ req[p].op = "transferMoney"
  /\ UNCHANGED <<balance, balance0, transactions, transactionRef, debited,
                 credited, store, client, issued,
                 callbacks>>
  /\ \/ TMOuterCatch(p)
     \/ /\ Resolves(pc[p]) /\ req[p].receiverId \notin Users
        /\ TMReject(p, "Receiver account not found")
     \/ /\ Resolves(pc[p]) /\ req[p].receiverId \in Users
        /\ pc' = [pc EXCEPT ![p] = "addDoc"]
        /\ receiverData' = [receiverData EXCEPT ![p] = balance[req[p].receiverId]]
        /\ UNCHANGED <<result, req, senderData>>

TMAddDoc(p) ==
  /\ pc[p] = "addDoc" /\ req[p].op = "transferMoney"
  /\ issued' = Issue(p, pc[p])
  /\ UNCHANGED <<balance, balance0, debited, credited, store, client, callbacks>>
  /\ \/ /\ TMOuterCatch(p)
        /\ UNCHANGED <<transactions, transactionRef>>
     \/ /\ Resolves(pc[p])
        /\ transactions' = Append(transactions,
              [senderId |-> req[p].senderId, receiverId |-> req[p].receiverId,
               amount |-> req[p].amount, status |-> "pending",
               transactionType |-> "transfer",
               timestamp |-> Now])
        /\ transactionRef' = [transactionRef EXCEPT ![p] = Len(transactions) + 1]
        /\ Goto(p, "debit")

\* faulty variant: a rejected sender update is swallowed and the credit goes ahead
TMUpdateSenderSwallowed(p) ==
  /\ pc[p] = "debit" /\ req[p].op = "transferMoney"
  /\ issued' = Issue(p, pc[p])
  /\ UNCHANGED <<balance0, transactions, transactionRef, credited, store, client,
                 callbacks>>
  /\ \/ /\ Rejects(pc[p]) /\ Goto(p, "credit")
        /\ UNCHANGED <<balance, debited>>
     \/ /\ Resolves(pc[p])
        /\ balance' = [balance EXCEPT ![req[p].senderId] =
                          DebitValue(senderData[p], req[p].amount)]
        /\ debited' = [debited EXCEPT ![p] = TRUE]
        /\ Goto(p, "credit")

\* faulty variant: a rejected sender update is issued a second time
TMUpdateSenderRetried(p) ==
  /\ pc[p] = "debit" /\ req[p].op = "transferMoney"
  /\ issued' = Issue(p, pc[p])
  /\ UNCHANGED <<balance0, transactions, transactionRef, credited, store, client,
                 callbacks>>
  /\ \/ /\ Rejects(pc[p])
        /\ IF issued[p][pc[p]] = 0 THEN Goto(p, "debit") ELSE Goto(p, "markFailed")
        /\ UNCHANGED <<balance, debited>>
     \/ /\ Resolves(pc[p])
        /\ balance' = [balance EXCEPT ![req[p].senderId] =
                          DebitValue(senderData[p], req[p].amount)]
        /\ debited' = [debited EXCEPT ![p] = TRUE]
        /\ Goto(p, "credit")

TMUpdateSender(p) ==
  /\ pc[p] = "debit" /\ req[p].op = "transferMoney"
  /\ issued' = Issue(p, pc[p])
  /\ UNCHANGED <<balance0, transactions, transactionRef, credited, store, client,
                 callbacks>>
  /\ \/ /\ TMInnerCatch(p)
        /\ UNCHANGED <<balance, debited>>
     \/ /\ Resolves(pc[p])
        /\ balance' = [balance EXCEPT ![req[p].senderId] =
                          DebitValue(senderData[p], req[p].amount)]
        /\ debited' = [debited EXCEPT ![p] = TRUE]
        /\ Goto(p, "credit")

TMUpdateReceiver(p) ==
  /\ pc[p] = "credit" /\ req[p].op = "transferMoney"
  /\ issued' = Issue(p, pc[p])
  /\ UNCHANGED <<balance0, transactions, transactionRef, debited, store, client, callbacks>>
  /\ \/ /\ TMInnerCatch(p)
        /\ UNCHANGED <<balance, credited>>
     \/ /\ Resolves(pc[p])
        /\ balance' = [balance EXCEPT ![req[p].receiverId] =
                          CreditValue(receiverData[p], req[p].amount)]
        /\ credited' = [credited EXCEPT ![p] = TRUE]
        /\ Goto(p, "complete")

\* faulty variant: the failed write sits in a finally block and also runs after success
TMMarkCompletedThenFailed(p) ==
  /\ pc[p] = "complete" /\ req[p].op = "transferMoney"
  /\ UNCHANGED <<balance, balance0, transactionRef, debited, credited, store, client, issued,
                 callbacks>>
  /\ \/ /\ TMInnerCatch(p)
        /\ UNCHANGED transactions
     \/ /\ Resolves(pc[p])
        /\ transactions' = SetStatus(transactionRef[p], "completed")
        /\ Goto(p, "markFailed")

\* faulty variant: the completed write addresses the newest transaction record
\* instead of the one the invocation created
TMMarkCompletedNewest(p) ==
  /\ pc[p] = "complete" /\ req[p].op = "transferMoney"
  /\ UNCHANGED <<balance, balance0, transactionRef, debited, credited, store, client, issued,
                 callbacks>>
  /\ \/ /\ TMInnerCatch(p)
        /\ UNCHANGED transactions
     \/ /\ Resolves(pc[p])
        /\ transactions' = SetStatus(Len(transactions), "completed")
        /\ Return(p, Success(transactionRef[p]))

TMMarkCompleted(p) ==
  /\ pc[p] = "complete" /\ req[p].op = "transferMoney"
  /\ UNCHANGED <<balance, balance0, transactionRef, debited, credited, store, client, issued,
                 callbacks>>
  /\ \/ /\ TMInnerCatch(p)
        /\ UNCHANGED transactions
     \/ /\ Resolves(pc[p])
        /\ transactions' = SetStatus(transactionRef[p], "completed")
        /\ Return(p, Success(transactionRef[p]))

TMMarkFailed(p) ==
  /\ pc[p] = "markFailed" /\ req[p].op = "transferMoney"
  /\ UNCHANGED <<balance, balance0, transactionRef, debited, credited, store, client, issued,
                 callbacks>>
  /\ \/ /\ TMOuterCatch(p)
        /\ UNCHANGED transactions
     \/ /\ Resolves(pc[p])
        /\ transactions' = SetStatus(transactionRef[p], "failed")
        /\ Return(p, Failure("Transaction processing failed"))

\* the body of transferMoney, one await at a time
TMBody(p) ==
  \/ TMGetSender(p)
  \/ TMGetReceiver(p)
  \/ TMAddDoc(p)
  \/ TMUpdateSender(p)
  \/ TMUpdateReceiver(p)
  \/ TMMarkCompleted(p)
  \/ TMMarkFailed(p)

transferMoney(p) ==
  \/ \E s \in AccountIds, r \in AccountIds, amount \in Amounts :
       Invoke(p, "transferMoney", s, r, amount) /\ UNCHANGED client
  \/ TMBody(p)

\* ---- processNFCPayment ---------------------------------------------------
\* what the NFC dialog shows
shown == <<toast, nfcScanStatus>>
\* the client state processNFCPayment and its callbacks leave alone
asides == <<stats, scannedValue, viaQR, nfcData, viaNFC>>

\* onError(error): the callback of the NFC dialog shows the failure; any other
\* caller's callback is only counted
onError(p, message) ==
  /\ callbacks' = [callbacks EXCEPT ![p].onError = @ + 1]
  /\ IF viaNFC[p]
       THEN /\ nfcScanStatus' = "error"
            /\ toast' = "Payment failed: " \o message
       ELSE UNCHANGED shown

\* onSuccess(transactionRef.id)
onSuccess(p, id) ==
  /\ callbacks' = [callbacks EXCEPT ![p].onSuccess = @ + 1]
  /\ IF viaNFC[p]
       THEN /\ nfcScanStatus' = "success"
            /\ toast' = "Payment successful! Transaction ID: " \o ToString(id)
       ELSE UNCHANGED shown

\* throw new Error(message), caught by the catch: onError(error)
NFCReject(p, message) == Return(p, Failure(message)) /\ onError(p, message)

\* faulty variant: the catch ends the function without calling onError
NFCCatchSilent(p) ==
  /\ Rejects(pc[p]) /\ Return(p, Failure("store error"))
  /\ UNCHANGED <<shown, callbacks>>

\* a store operation rejected: the catch hands the store's error to onError
NFCCatch(p) ==
  Rejects(pc[p]) /\ Return(p, Failure("store error")) /\ onError(p, "store error")

\* the last status write resolved: onSuccess is called and the function ends
NFCSucceed(p, id) == Return(p, Success(id)) /\ onSuccess(p, id)

\* the invocation continues at the next await; no callback is called
NFCGoto(p, label) == Goto(p, label) /\ UNCHANGED <<shown, callbacks>>

NFCGetSender(p) ==
  /\ pc[p] = "getSender" /\ req[p].op = "processNFCPayment"
  /\ UNCHANGED <<balance, balance0, transactions, transactionRef, debited,
                 credited, store, asides, issued>>
  /\ \/ NFCCatch(p)
     \/ /\ Resolves(pc[p]) /\ req[p].senderId \notin Users
        /\ NFCReject(p, "Sender account not found")
     \/ /\ Resolves(pc[p]) /\ req[p].senderId \in Users
        /\ IF InsufficientFunds(balance[req[p].senderId], req[p].amount)
             THEN NFCReject(p, "Insufficient funds")
             ELSE /\ pc' = [pc EXCEPT ![p] = "getReceiver"]
                  /\ senderData' = [senderData EXCEPT ![p] = balance[req[p].senderId]]
                  /\ UNCHANGED <<result, req, receiverData, shown, callbacks>>

NFCGetReceiver(p) ==
  /\ pc[p] = "getReceiver" /\ req[p].op = "processNFCPayment"
  /\ UNCHANGED <<balance, balance0, transactions, transactionRef, debited,
                 credited, store, asides, issued>>
  /\ \/ NFCCatch(p)
     \/ /\ Resolves(pc[p]) /\ req[p].receiverId \notin Users
        /\ NFCReject(p, "Receiver account not found")
     \/ /\ Resolves(pc[p]) /\ req[p].receiverId \in Users
        /\ pc' = [pc EXCEPT ![p] = "addDoc"]
        /\ receiverData' = [receiverData EXCEPT ![p] = balance[req[p].receiverId]]
        /\ UNCHANGED <<result, req, senderData, shown, callbacks>>

NFCAddDoc(p) ==
  /\ pc[p] = "addDoc" /\ req[p].op = "processNFCPayment"
  /\ issued' = Issue(p, pc[p])
  /\ UNCHANGED <<balance, balance0, debited, credited, store, asides>>
  /\ \/ /\ NFCCatch(p)
        /\ UNCHANGED <<transactions, transactionRef>>
     \/ /\ Resolves(pc[p])
        /\ transactions' = Append(transactions,
              [senderId |-> req[p].senderId, receiverId |-> req[p].receiverId,
               amount |-> req[p].amount, status |-> "pending",
               transactionType |-> "nfc",
               timestamp |-> Now])
        /\ transactionRef' = [transactionRef EXCEPT ![p] = Len(transactions) + 1]
        /\ NFCGoto(p, "debit")

NFCUpdateSender(p) ==
  /\ pc[p] = "debit" /\ req[p].op = "processNFCPayment"
  /\ issued' = Issue(p, pc[p])
  /\ UNCHANGED <<balance0, transactions, transactionRef, credited, store, asides>>
  /\ \/ /\ NFCCatch(p)
        /\ UNCHANGED <<balance, debited>>
     \/ /\ Resolves(pc[p])
        /\ balance' = [balance EXCEPT ![req[p].senderId] =
                          DebitValue(senderData[p], req[p].amount)]
        /\ debited' = [debited EXCEPT ![p] = TRUE]
        /\ NFCGoto(p, "credit")

\* faulty variant: a rejected receiver update is ignored and the status write
\* goes ahead
NFCUpdateReceiverSwallowed(p) ==
  /\ pc[p] = "credit" /\ req[p].op = "processNFCPayment"
  /\ issued' = Issue(p, pc[p])
  /\ UNCHANGED <<balance0, transactions, transactionRef, debited, store, asides>>
  /\ \/ /\ Rejects(pc[p]) /\ NFCGoto(p, "complete")
        /\ UNCHANGED <<balance, credited>>
     \/ /\ Resolves(pc[p])
        /\ balance' = [balance EXCEPT ![req[p].receiverId] =
                          CreditValue(receiverData[p], req[p].amount)]
        /\ credited' = [credited EXCEPT ![p] = TRUE]
        /\ NFCGoto(p, "complete")

NFCUpdateReceiver(p) ==
  /\ pc[p] = "credit" /\ req[p].op = "processNFCPayment"
  /\ issued' = Issue(p, pc[p])
  /\ UNCHANGED <<balance0, transactions, transactionRef, debited, store, asides>>
  /\ \/ /\ NFCCatch(p)
        /\ UNCHANGED <<balance, credited>>
     \/ /\ Resolves(pc[p])
        /\ balance' = [balance EXCEPT ![req[p].receiverId] =
                          CreditValue(receiverData[p], req[p].amount)]
        /\ credited' = [credited EXCEPT ![p] = TRUE]
        /\ NFCGoto(p, "complete")

NFCMarkCompleted(p) ==
  /\ pc[p] = "complete" /\ req[p].op = "processNFCPayment"
  /\ UNCHANGED <<balance, balance0, transactionRef, debited, credited, store,
                 asides, issued>>
  /\ \/ /\ NFCCatch(p)
        /\ UNCHANGED transactions
     \/ /\ Resolves(pc[p])
        /\ transactions' = SetStatus(transactionRef[p], "completed")
        /\ NFCSucceed(p, transactionRef[p])

\* the body of processNFCPayment, one await at a time
NFCBody(p) ==
  \/ NFCGetSender(p)
  \/ NFCGetReceiver(p)
  \/ NFCAddDoc(p)
  \/ NFCUpdateSender(p)
  \/ NFCUpdateReceiver(p)
  \/ NFCMarkCompleted(p)

processNFCPayment(p) ==
  \/ \E s \in AccountIds, r \in AccountIds, amount \in Amounts :
       Invoke(p, "processNFCPayment", s, r, amount) /\ UNCHANGED client
  \/ NFCBody(p)

Next == \E p \in Procs : transferMoney(p) \/ processNFCPayment(p)

Spec == Init /\ [][Next]_vars

\* ---- the two paths side by side -----------------------------------------
\* Accounts "C" and "D" are copies of "A" and "B".  Invocation 1 runs
\* transferMoney on A and B, invocation 2 runs processNFCPayment with the same
\* request on the copies, and the store gives both the same answer to the same
\* operation (each operation is fixed to resolve or to reject).
Twin(a) == CASE a = "A" -> "C" [] a = "B" -> "D" [] OTHER -> a

FixedAnswers == [Ops -> {{"resolve"}, {"reject"}}]

InitCompare ==
  /\ balance \in [{"A", "B", "C", "D"} -> {0, MaxBalance}]
  /\ \A a \in {"A", "B"} : balance[Twin(a)] = balance[a]
  /\ store \in FixedAnswers
  /\ Fresh

\* the same request reaches both paths
InvokeBoth(s, r, amount) ==
  /\ \A p \in Procs : pc[p] = "idle"
  /\ req' = [req EXCEPT
              ![1] = [op |-> "transferMoney", senderId |-> s, receiverId |-> r,
                      amount |-> amount],
              ![2] = [op |-> "processNFCPayment", senderId |-> Twin(s),
                      receiverId |-> Twin(r), amount |-> amount]]
  /\ pc' = [p \in Procs |-> "getSender"]
  /\ UNCHANGED <<balance, balance0, transactions, senderData, receiverData,
                 transactionRef, result, debited, credited, store, client, issued,
                 callbacks>>

NextCompare ==
  \/ \E s \in {"A", "Z"}, r \in {"A", "B", "Z"}, amount \in Amounts :
       InvokeBoth(s, r, amount)
  \/ TMBody(1)
  \/ NFCBody(2)

SpecCompare == InitCompare /\ [][NextCompare]_vars

\* ---- QRCodeTransaction.processScannedQR ------------------------------------
\* texts a scanned code may carry: the JSON of an object with the fields the
\* payment code has (type "undefined": the object has no type field; senderId
\* "" as generateQRCode writes it, or the id of an account), the JSON of null,
\* and text that is not JSON
QRCodes ==
  [json : {"object"}, type : {"payment", "receipt", "undefined"},
   senderId : {"", "B"}, receiverId : AccountIds, amount : Amounts]
  \cup {[json |-> j, type |-> "", senderId |-> "", receiverId |-> "", amount |-> 0] :
          j \in {"null", "invalid"}}

\* JSON.parse(qrData) followed by the read of paymentData.type throws for text
\* that is not JSON (SyntaxError) and for null (TypeError)
ParseThrows(qrData) == qrData.json # "object"

\* the scan is turned down with a notification; nothing reaches the engine
QRRejected(message) ==
  /\ toast' = message
  /\ UNCHANGED <<balance, balance0, transactions, pc, req, senderData, receiverData,
                 transactionRef, result, debited, credited, store, viaQR, issued,
                 callbacks>>

\* faulty variant: the type of the payload is not looked at
processScannedQRAnyType(p, qrData, currentUser) ==
  /\ scannedValue' = qrData
  /\ UNCHANGED <<stats, nfcData, nfcScanStatus, viaNFC>>
  /\ IF ParseThrows(qrData) THEN QRRejected("Failed to process payment")
     ELSE IF currentUser = "null"
       THEN QRRejected("You must be logged in to make payments")
     ELSE /\ Invoke(p, "transferMoney", currentUser, qrData.receiverId, qrData.amount)
          /\ viaQR' = [viaQR EXCEPT ![p] = TRUE]
          /\ UNCHANGED toast

\* faulty variant: the sender is taken from the payload when it names one
processScannedQRPayloadSender(p, qrData, currentUser) ==
  /\ scannedValue' = qrData
  /\ UNCHANGED <<stats, nfcData, nfcScanStatus, viaNFC>>
  /\ IF ParseThrows(qrData) THEN QRRejected("Failed to process payment")
     ELSE IF qrData.type # "payment"
       THEN QRRejected("Invalid QR code: Not a payment QR")
     ELSE IF currentUser = "null"
       THEN QRRejected("You must be logged in to make payments")
     ELSE /\ Invoke(p, "transferMoney",
                    IF qrData.senderId # "" THEN qrData.senderId ELSE currentUser,
                    qrData.receiverId, qrData.amount)
          /\ viaQR' = [viaQR EXCEPT ![p] = TRUE]
          /\ UNCHANGED toast

\* up to the await of transferMoney
processScannedQR(p, qrData, currentUser) ==
  /\ scannedValue' = qrData
  /\ UNCHANGED <<stats, nfcData, nfcScanStatus, viaNFC>>
  /\ IF ParseThrows(qrData) THEN QRRejected("Failed to process payment")
     ELSE IF qrData.type # "payment"
       THEN QRRejected("Invalid QR code: Not a payment QR")
     ELSE IF currentUser = "null"
       THEN QRRejected("You must be logged in to make payments")
     ELSE /\ Invoke(p, "transferMoney", currentUser, qrData.receiverId, qrData.amount)
          /\ viaQR' = [viaQR EXCEPT ![p] = TRUE]
          /\ UNCHANGED toast

\* after the await: the result is shown
QRAfterTransfer(p) ==
  /\ viaQR[p] /\ pc[p] = "done"
  /\ viaQR' = [viaQR EXCEPT ![p] = FALSE]
  /\ toast' = IF result[p].success THEN "Payment successful!"
                                   ELSE "Payment failed: " \o result[p].error
  /\ UNCHANGED <<balance, balance0, transactions, pc, req, senderData, receiverData,
                 transactionRef, result, debited, credited, store, stats,
                 scannedValue, nfcData, nfcScanStatus, viaNFC, issued, callbacks>>

InitQR ==
  /\ balance \in [{"A", "B"} -> {0, MaxBalance}]
  /\ store = AnyAnswer
  /\ Fresh

\* the signed-in user is "A"; "null" stands for nobody signed in
NextQR ==
  \/ \E qrData \in QRCodes, currentUser \in {"A", "null"} :
       processScannedQR(1, qrData, currentUser)
  \/ TMBody(1)
  \/ QRAfterTransfer(1)

SpecQR == InitQR /\ [][NextQR]_vars

\* ---- NFC payment dialog: startNFCPayment, startNFCScanning ----------------
\* texts a tag's text record may carry: the JSON of an object with the fields
\* of a payment (description "undefined": the object has no description; the
\* tags writeNFCData produces have no type field), and text that is not JSON
NFCTexts ==
  [json : {"object"}, type : {"payment", "receipt", "undefined"},
   senderId : {"", "B"}, receiverId : AccountIds, amount : Amounts,
   description : {"present", "undefined"}]
  \cup {[json |-> "invalid", type |-> "", senderId |-> "", receiverId |-> "",
          amount |-> 0, description |-> ""]}

\* what the dialog and the engine are left with when the dialog only reports
NFCShow(status, message) ==
  /\ nfcScanStatus' = status
  /\ toast' = message
  /\ UNCHANGED <<balance, balance0, transactions, pc, req, senderData, receiverData,
                 transactionRef, result, debited, credited, store, stats,
                 scannedValue, viaQR, viaNFC, issued, callbacks>>

\* the user opens the dialog: without Web NFC a notification and nothing else;
\* otherwise reader.scan() is awaited and either the reader listens or the
\* rejection goes to the dialog's scan-error callback
startNFCPayment ==
  /\ nfcScanStatus = "idle"
  /\ UNCHANGED nfcData
  /\ \/ NFCShow("idle", "NFC is not supported on your device or browser")
     \/ /\ nfcScanStatus' = "scanning"
        /\ UNCHANGED <<balance, balance0, transactions, pc, req, senderData,
                       receiverData, transactionRef, result, debited, credited,
                       store, stats, scannedValue, toast, viaQR, viaNFC, issued,
                       callbacks>>
     \/ NFCShow("error", "NFC scan error: scan rejected")

\* the reader's "reading" event with a text record, while the dialog waits for a
\* tag: JSON.parse, then the dialog's onReading, which calls processNFCPayment
\* with the signed-in user's id and does not await it
NFCReading(p, text, currentUser) ==
  /\ nfcScanStatus = "scanning"
  /\ nfcData' = text
  /\ IF text.json # "object" THEN NFCShow("error", "NFC scan error: not JSON")
     ELSE IF currentUser = "null"
       THEN NFCShow("error", "You must be logged in to make payments")
     ELSE /\ Invoke(p, "processNFCPayment", currentUser, text.receiverId, text.amount)
          /\ viaNFC' = [viaNFC EXCEPT ![p] = TRUE]
          /\ nfcScanStatus' = "processing"
          /\ UNCHANGED <<stats, scannedValue, toast, viaQR>>

\* ---- one code scanned or one tag read ------------------------------------
\* The first payload to reach a decoder, by either way in, and the invocation it
\* leads to.  The signed-in user is "A"; "null" stands for nobody signed in.
NextDecode ==
  \/ scannedValue = NoScan /\ startNFCPayment
  \/ \E text \in NFCTexts, currentUser \in {"A", "null"} :
       NFCReading(1, text, currentUser)
  \/ \E qrData \in QRCodes, currentUser \in {"A", "null"} :
       /\ scannedValue = NoScan /\ nfcScanStatus = "idle"
       /\ processScannedQR(1, qrData, currentUser)
  \/ TMBody(1)
  \/ NFCBody(1)
  \/ QRAfterTransfer(1)

SpecDecode == InitQR /\ [][NextDecode]_vars

\* ---- getTransactionStatistics ---------------------------------------------
TransactionTypes == {"transfer", "nfc"}   \* the types the engine writes

\* where("receiverId", "==", userId), where("status", "==", "completed"),
\* where("timestamp", ">=", startDate), where("timestamp", "<=", endDate)
ReceivedDocs(userId, startDate, endDate) ==
  {i \in TxIds : /\ transactions[i].receiverId = userId
                 /\ transactions[i].status = "completed"
                 /\ transactions[i].timestamp >= startDate
                 /\ transactions[i].timestamp <= endDate}

\* the same query with where("senderId", "==", userId)
SentDocs(userId, startDate, endDate) ==
  {i \in TxIds : /\ transactions[i].senderId = userId
                 /\ transactions[i].status = "completed"
                 /\ transactions[i].timestamp >= startDate
                 /\ transactions[i].timestamp <= endDate}

\* snapshot.docs.forEach: in the order of the query (timestamp descending), add
\* the amount to result[total] and to the category of the transaction's type,
\* and count the transaction
RECURSIVE ForEach(_, _, _)
ForEach(res, docs, total) ==
  IF docs = {} THEN res
  ELSE LET i == CHOOSE d \in docs : \A e \in docs :
                  transactions[e].timestamp <= transactions[d].timestamp
           t == transactions[i]
           type == t.transactionType
           \* if (!result.categories[type]) result.categories[type] = 0
           cats == IF type \in DOMAIN res.categories /\ res.categories[type] # 0
                     THEN res.categories
                     ELSE (type :> 0) @@ res.categories
           next == [res EXCEPT ![total] = @ + t.amount,
                               !.totalTransactions = @ + 1,
                               !.categories = [cats EXCEPT ![type] = @ + t.amount]]
       IN ForEach(next, docs \ {i}, total)

\* the value returned when both queries resolve
Statistics(userId, startDate, endDate) ==
  ForEach(ForEach(EmptyStatistics, ReceivedDocs(userId, startDate, endDate),
                  "totalIncome"),
          SentDocs(userId, startDate, endDate), "totalExpenses")

\* one call; when a query rejects, Promise.all rejects before anything is
\* accumulated and the catch returns the initial result
getTransactionStatistics(userId, startDate, endDate) ==
  /\ \/ /\ Resolves("getDocs")
        /\ stats' = [userId |-> userId, startDate |-> startDate, endDate |-> endDate,
                     value |-> Statistics(userId, startDate, endDate)]
     \/ /\ Rejects("getDocs")
        /\ stats' = [userId |-> userId, startDate |-> startDate, endDate |-> endDate,
                     value |-> EmptyStatistics]
  /\ UNCHANGED <<balance, balance0, transactions, pc, req, senderData, receiverData,
                 transactionRef, result, debited, credited, store, scannedValue,
                 toast, viaQR, nfcData, nfcScanStatus, viaNFC, issued, callbacks>>

\* records the engine may have stored for account "A" and a second account
StoredRecords ==
  {t \in [senderId : {"A", "B"}, receiverId : {"A", "B"}, amount : 1..MaxAmount,
          status : {"pending", "completed", "failed"},
          transactionType : TransactionTypes] :
     t.senderId = "A" \/ t.receiverId = "A"}

\* the i-th record written carries the i-th tick of the clock
Stamped(records) ==
  [i \in DOMAIN records |-> records[i] @@ ("timestamp" :> i)]

InitStats ==
  /\ balance = [a \in {"A", "B"} |-> MaxBalance]
  /\ store = AnyAnswer
  /\ \E n \in 0..MaxTx : \E records \in [1..n -> StoredRecords] :
        transactions = Stamped(records)
  /\ nfcScanStatus = "idle"
  /\ NothingRunning

NextStats ==
  \E startDate \in 1..MaxTx, endDate \in 1..MaxTx :
    startDate <= endDate /\ getTransactionStatistics("A", startDate, endDate)

SpecStats == InitStats /\ [][NextStats]_vars

\* ---- a store that stops answering ----------------------------------------
\* one of the operations issued after the insert gets no answer at all: its
\* promise neither resolves nor rejects (Firestore keeps a write queued while the
\* backend cannot be reached)
AfterInsert == {"debit", "credit", "complete", "markFailed"}
Silent(op) == [AnyAnswer EXCEPT ![op] = {}]

InitSilent ==
  /\ balance \in [{"A", "B"} -> {0, MaxBalance}]
  /\ store \in {AnyAnswer} \cup {Silent(op) : op \in AfterInsert}
  /\ Fresh

NextSilent == transferMoney(1) \/ processNFCPayment(1)

SpecSilent == InitSilent /\ [][NextSilent]_vars

\* ---- two unrelated transfers --------------------------------------------
\* Invocation 1 transfers from "A" to "B", invocation 2 from "C" to "D"; both
\* run transferMoney and interleave at every await.
From(p) == IF p = 1 THEN "A" ELSE "C"
To(p) == IF p = 1 THEN "B" ELSE "D"

InitDisjoint ==
  /\ balance \in [{"A", "B", "C", "D"} -> {0, MaxBalance}]
  /\ store = AnyAnswer
  /\ Fresh

NextDisjoint ==
  \E p \in Procs :
    \/ \E amount \in Amounts :
         Invoke(p, "transferMoney", From(p), To(p), amount) /\ UNCHANGED client
    \/ TMBody(p)

SpecDisjoint == InitDisjoint /\ [][NextDisjoint]_vars

\* ---- properties ----------------------------------------------------------
Quiescent == \A p \in Procs : pc[p] \in {"idle", "done"}


\* the request of a running invocation is a well-formed one
ValidReq(p) == req[p].senderId # req[p].receiverId /\ req[p].amount > 0

\* p has inserted no transaction record and written no balance
NoMutation(p) == transactionRef[p] = NoRef /\ ~debited[p] /\ ~credited[p]

\* C1 (as claimed): when no invocation is running and every transaction record is
\* completed (taking only well-formed transfers: distinct accounts, positive
\* amount), the sum of all balances equals the sum before the invocations.
C1_Conservation ==
  (/\ Quiescent
   /\ \A i \in TxIds : /\ transactions[i].status = "completed"
                       /\ transactions[i].senderId # transactions[i].receiverId
                       /\ transactions[i].amount > 0)
  => SumBalances(balance, Users) = SumBalances(balance0, Users)

\* C2 (as claimed): every account's balance is >= 0 in every reachable state.
C2_NoOverdraft == \A a \in Users : balance[a] >= 0

\* C3 (as claimed): every balance write of a well-formed transfer happens only
\* while the stored balance is still the value the invocation last read for that
\* account (the write is conditional on the value read).
C3_ConditionalWrite ==
  [][\A p \in Procs : ValidReq(p) =>
        /\ (debited'[p] /\ ~debited[p])
              => balance[req[p].senderId] = senderData[p]
        /\ (credited'[p] /\ ~credited[p])
              => balance[req[p].receiverId] = receiverData[p]]_vars

\* C4 (as claimed): an invocation whose senderId equals its receiverId (amount
\* positive) inserts no transaction record and writes no balance.
C4_SelfTransferRejected ==
  /\ \A p \in Procs :
       (req[p].op # "none" /\ req[p].senderId = req[p].receiverId /\ req[p].amount > 0)
         => NoMutation(p)
  /\ \A i \in TxIds :
       transactions[i].amount > 0 => transactions[i].senderId # transactions[i].receiverId

\* the step in which p reads the sender's document and finds less than the amount
ShortRead(p) ==
  /\ pc[p] = "getSender" /\ pc'[p] # "getSender"
  /\ req[p].senderId \in Users
  /\ balance[req[p].senderId] < req[p].amount

\* C5 (as claimed): a Transfer whose amount exceeds the sender's balance always
\* fails with the error "Insufficient funds", changes no balance and creates no
\* transaction record.
C5_AlwaysInsufficientFunds ==
  [][\A p \in Procs : ShortRead(p) =>
        /\ pc'[p] = "done"
        /\ result'[p] = Failure("Insufficient funds")
        /\ balance' = balance /\ transactions' = transactions]_vars

\* C5 (amended): a Transfer whose amount exceeds the sender's balance always fails,
\* changes no balance and creates no transaction record; its error is
\* "Insufficient funds", or the store-failure error of its path when the read of
\* the sender's document itself rejects.
C5_InsufficientFunds ==
  [][\A p \in Procs : ShortRead(p) =>
        /\ pc'[p] = "done"
        /\ \/ result'[p] = Failure("Insufficient funds")
           \/ req[p].op = "transferMoney" /\ result'[p] = Failure("Transaction failed")
           \/ req[p].op = "processNFCPayment" /\ result'[p] = Failure("store error")
        /\ transactionRef'[p] = NoRef /\ ~debited'[p] /\ ~credited'[p]
        /\ balance' = balance /\ transactions' = transactions]_vars

C5_Witness ==
  \E p \in Procs :
    /\ pc[p] = "done" /\ result[p] = Failure("Insufficient funds")
    /\ NoMutation(p)
    /\ transactions = <<>> /\ balance = balance0

\* C6: once a transaction's stored status is completed or failed, no step
\* changes it.
C6_TerminalStatus ==
  [][\A i \in TxIds :
        transactions[i].status \in {"completed", "failed"}
          => transactions'[i].status = transactions[i].status]_vars

C6_Witness ==
  /\ Len(transactions) = 2
  /\ transactions[1].status = "failed"
  /\ transactions[2].status = "completed"
  /\ Quiescent

\* C7 (as claimed): no invocation ends with the transaction it inserted still
\* pending.
C7_NoPermanentlyPending ==
  \A p \in Procs :
    (pc[p] = "done" /\ transactionRef[p] # NoRef)
      => transactions[transactionRef[p]].status # "pending"

\* C8: the credit is attempted only after the debit was applied: no invocation
\* is at its credit step, or has its credit applied, without its debit applied.
C8_SequencedUpdates ==
  \A p \in Procs : (pc[p] = "credit" \/ credited[p]) => debited[p]

C8_Witness ==
  \E p \in Procs :
    /\ pc[p] = "done" /\ ~result[p].success
    /\ debited[p] /\ ~credited[p]

\* C9 (as claimed): an invocation that ended after inserting its transaction
\* without its credit applied (its debit or credit update rejected) has marked the
\* transaction failed and reported "Transaction processing failed".
C9_ProcessingFailureSurfaced ==
  \A p \in Procs :
    (pc[p] = "done" /\ transactionRef[p] # NoRef /\ ~credited[p])
      => /\ transactions[transactionRef[p]].status = "failed"
         /\ result[p] = Failure("Transaction processing failed")

\* C10 (as claimed): an invocation with amount <= 0 (between distinct accounts)
\* inserts no transaction record and writes no balance.
C10_AmountValidated ==
  /\ \A p \in Procs :
       (req[p].op # "none" /\ req[p].amount <= 0 /\ req[p].senderId # req[p].receiverId)
         => NoMutation(p)
  /\ \A i \in TxIds :
       transactions[i].senderId # transactions[i].receiverId => transactions[i].amount > 0


\* the request of a running invocation names an account that has no document
MissingAccount(p) ==
  /\ req[p].op # "none"
  /\ req[p].senderId \notin Users \/ req[p].receiverId \notin Users

\* the error the invocation's path reports when a store read rejects
StoreFailure(p) ==
  IF req[p].op = "transferMoney" THEN Failure("Transaction failed")
                                 ELSE Failure("store error")

\* C11 (as claimed): a Transfer whose sender or receiver account does not exist
\* ends with a failure naming the missing account (or with the store-failure error
\* when a read rejects) and leaves every balance and the transaction records
\* unchanged.
C11_NamesMissingAccount ==
  [][\A p \in Procs : (MissingAccount(p) /\ pc'[p] # pc[p]) =>
        /\ balance' = balance /\ transactions' = transactions
        /\ pc'[p] = "done" =>
             \/ req[p].senderId \notin Users
                  /\ result'[p] = Failure("Sender account not found")
             \/ req[p].receiverId \notin Users
                  /\ result'[p] = Failure("Receiver account not found")
             \/ result'[p] = StoreFailure(p)]_vars

\* C11 (amended): a Transfer whose sender or receiver account does not exist always
\* fails without inserting a record or writing a balance.  A missing sender is
\* named by "Sender account not found"; a missing receiver is named by "Receiver
\* account not found" only when the sender exists and holds at least the amount:
\* a sender holding less yields "Insufficient funds" (the funds check precedes the
\* receiver lookup), and a rejected read yields the store-failure error.
C11_AccountNotFound ==
  [][\A p \in Procs : (MissingAccount(p) /\ pc'[p] # pc[p]) =>
        /\ balance' = balance /\ transactions' = transactions
        /\ transactionRef'[p] = NoRef /\ ~debited'[p] /\ ~credited'[p]
        /\ \/ /\ pc[p] = "getSender" /\ pc'[p] = "getReceiver"
              /\ req[p].senderId \in Users
              /\ balance[req[p].senderId] >= req[p].amount
           \/ /\ pc'[p] = "done" /\ result'[p] = StoreFailure(p)
           \/ /\ pc[p] = "getSender" /\ pc'[p] = "done"
              /\ req[p].senderId \notin Users
              /\ result'[p] = Failure("Sender account not found")
           \/ /\ pc[p] = "getSender" /\ pc'[p] = "done"
              /\ req[p].senderId \in Users
              /\ balance[req[p].senderId] < req[p].amount
              /\ result'[p] = Failure("Insufficient funds")
           \/ /\ pc[p] = "getReceiver" /\ pc'[p] = "done"
              /\ req[p].receiverId \notin Users
              /\ result'[p] = Failure("Receiver account not found")]_vars

C11_Witness ==
  \E p \in Procs :
    /\ pc[p] = "done" /\ result[p] = Failure("Receiver account not found")
    /\ NoMutation(p)
    /\ transactions = <<>> /\ balance = balance0


\* no other invocation has started
Alone(p) == \A q \in Procs \ {p} : pc[q] = "idle"

\* the await that follows each await of transferMoney when nothing fails
NextAwait(label) ==
  CASE label = "getSender" -> "getReceiver"
    [] label = "getReceiver" -> "addDoc"
    [] label = "addDoc" -> "debit"
    [] label = "debit" -> "credit"
    [] label = "credit" -> "complete"
    [] OTHER -> "done"

\* C12: a transferMoney between existing distinct accounts, with 0 < amount <=
\* sender balance, that runs alone: each of its steps either is a store failure
\* (it lands in a catch) or advances to the next await, and the last one returns
\* success with the id of its transaction, whose status is then completed, with the
\* sender's balance lower and the receiver's higher by exactly the amount.
C12_SuccessfulTransfer ==
  [][\A p \in Procs :
       (/\ req[p].op = "transferMoney" /\ Alone(p) /\ ValidReq(p)
        /\ req[p].senderId \in Users /\ req[p].receiverId \in Users
        /\ balance0[req[p].senderId] >= req[p].amount
        /\ pc'[p] # pc[p])
       => \/ pc'[p] = "markFailed"
          \/ /\ pc'[p] = "done"
             /\ result'[p] \in {Failure("Transaction failed"),
                                Failure("Transaction processing failed")}
          \/ pc[p] # "complete" /\ pc'[p] = NextAwait(pc[p]) /\ pc'[p] # "done"
          \/ /\ pc[p] = "complete" /\ pc'[p] = "done"
             /\ transactionRef[p] \in 1..Len(transactions')
             /\ result'[p] = Success(transactionRef[p])
             /\ transactions'[transactionRef[p]].status = "completed"
             /\ balance'[req[p].senderId] = balance0[req[p].senderId] - req[p].amount
             /\ balance'[req[p].receiverId] = balance0[req[p].receiverId] + req[p].amount
     ]_vars

C12_Witness ==
  /\ pc[1] = "done" /\ pc[2] = "idle"
  /\ result[1] = Success(1)
  /\ transactions[1].status = "completed"
  /\ transactions[1].transactionType = "transfer"
  /\ transactions[1].amount > 0
  /\ balance[transactions[1].senderId] = balance0[transactions[1].senderId] - transactions[1].amount
  /\ balance[transactions[1].receiverId] = balance0[transactions[1].receiverId] + transactions[1].amount


\* every transaction record is between distinct accounts with a positive amount
WellFormedRecords ==
  \A i \in TxIds : /\ transactions[i].senderId # transactions[i].receiverId
                   /\ transactions[i].amount > 0

\* completed amounts received minus completed amounts sent by account a, over the
\* first n transaction records
RECURSIVE NetCompleted(_, _)
NetCompleted(a, n) ==
  IF n = 0 THEN 0
  ELSE LET t == transactions[n] IN
       NetCompleted(a, n - 1)
         + (IF t.status = "completed" /\ t.receiverId = a THEN t.amount ELSE 0)
         - (IF t.status = "completed" /\ t.senderId = a THEN t.amount ELSE 0)

\* C13 (as claimed): whenever no invocation is running and no transaction is
\* failed (all records well-formed), each account's balance is its initial balance
\* plus the completed amounts it received minus the completed amounts it sent.
C13_LedgerMatchesBalances ==
  (Quiescent /\ WellFormedRecords
     /\ \A i \in TxIds : transactions[i].status # "failed")
  => \A a \in Users : balance[a] = balance0[a] + NetCompleted(a, Len(transactions))

\* C14 (as claimed): every step that changes an account's balance changes it by
\* the amount of an already inserted transaction record that names the account:
\* down by it for the record's sender, up by it for the record's receiver (all
\* records well-formed).
C14_ExplainedBalanceChange ==
  [][WellFormedRecords =>
       \A a \in Users : balance'[a] # balance[a] =>
         \E i \in TxIds :
           \/ transactions[i].senderId = a
                /\ balance'[a] = balance[a] - transactions[i].amount
           \/ transactions[i].receiverId = a
                /\ balance'[a] = balance[a] + transactions[i].amount]_vars


\* the stored status of the invocation's transaction record, "none" without one
StatusOf(p) == IF transactionRef[p] = NoRef THEN "none"
               ELSE transactions[transactionRef[p]].status

BothReturned == \A p \in Procs : pc[p] = "done"

\* C15: when transferMoney (on A, B) and processNFCPayment (on the copies C, D)
\* have both returned from the same request, the same initial balances and the
\* same store answers, the balances of the copies equal the balances of the
\* originals, the two transaction records have the same status, and both report
\* success or both report failure (requests with a positive amount between two
\* different accounts are enough to refute it).
C15_NFCEqualsTransfer ==
  BothReturned /\ WellFormedRecords =>
    /\ \A a \in {"A", "B"} : balance[Twin(a)] = balance[a]
    /\ StatusOf(2) = StatusOf(1)
    /\ result[2].success = result[1].success


\* what transferMoney leaves behind when it runs with nothing else in progress:
\* the sender and receiver hold their initial balance, less / plus the amount
\* when the store applied the update; the funds check saw the initial balance;
\* the credit follows an applied debit; completed follows an applied credit and
\* is the only status reported as success
AloneOutcome(p, r) ==
  /\ balance'[r.senderId] = IF debited'[p]
                               THEN balance0[r.senderId] - r.amount
                               ELSE balance0[r.senderId]
  /\ balance'[r.receiverId] = IF credited'[p]
                                 THEN balance0[r.receiverId] + r.amount
                                 ELSE balance0[r.receiverId]
  /\ InsufficientFunds(balance0[r.senderId], r.amount) =>
        /\ transactionRef'[p] = NoRef
        /\ result'[p] \in {Failure("Insufficient funds"), Failure("Transaction failed")}
  /\ transactionRef'[p] = NoRef => ~debited'[p]
  /\ credited'[p] => debited'[p]
  /\ StatusOf(p)' = "completed" => credited'[p]
  /\ result'[p].success <=> StatusOf(p)' = "completed"
  /\ StatusOf(p)' \in {"none", "completed", "failed", "pending"}
  /\ StatusOf(p)' = "pending" => result'[p] = Failure("Transaction failed")

\* C16: two transferMoney invocations on disjoint accounts (A to B, C to D) that
\* interleave at every store operation: each returns with the balances, the
\* transaction status and the result it has when it runs by itself from the
\* initial balances with the same store answers, and once it has returned its
\* accounts and its record stay as it left them -- so the final state is that of
\* running the two one after the other, in either order.
C16_IndependentTransfers ==
  [][\A p \in Procs :
       /\ pc[p] \notin {"idle", "done"} /\ pc'[p] = "done" => AloneOutcome(p, req[p])
       /\ pc[p] = "done" =>
            /\ balance'[From(p)] = balance[From(p)]
            /\ balance'[To(p)] = balance[To(p)]
            /\ StatusOf(p)' = StatusOf(p)
            /\ result'[p] = result[p]]_vars

\* both transfers completed although the second one created its record first
C16_Witness ==
  /\ BothReturned
  /\ transactionRef = <<2, 1>>
  /\ \A p \in Procs : StatusOf(p) = "completed" /\ result[p].success
  /\ balance0 = [a \in {"A", "B", "C", "D"} |-> IF a \in {"A", "C"} THEN MaxBalance ELSE 0]
  /\ balance = [a \in {"A", "B", "C", "D"} |-> IF a \in {"B", "D"} THEN MaxBalance ELSE 0]


RECURSIVE SumAmounts(_)
SumAmounts(ids) ==
  IF ids = {} THEN 0
  ELSE LET i == CHOOSE x \in ids : TRUE
       IN transactions[i].amount + SumAmounts(ids \ {i})

\* completed transactions of the last call's date range, inclusive at both ends
InRange == {i \in TxIds : /\ transactions[i].status = "completed"
                          /\ stats.startDate <= transactions[i].timestamp
                          /\ transactions[i].timestamp <= stats.endDate}
Inbound == {i \in InRange : transactions[i].receiverId = stats.userId}
Outbound == {i \in InRange : transactions[i].senderId = stats.userId}

\* C17: the value returned by getTransactionStatistics(userId, startDate,
\* endDate) has totalIncome = the sum of the amounts of the completed in-range
\* transactions received by userId, totalExpenses = the same sum over those sent
\* by userId, and totalTransactions = the size of the first set plus the size of
\* the second (stored records with a positive amount between two different
\* accounts are enough to refute it).
C17_StatisticsTotals ==
  stats # NoStats /\ WellFormedRecords =>
    /\ stats.value.totalIncome = SumAmounts(Inbound)
    /\ stats.value.totalExpenses = SumAmounts(Outbound)
    /\ stats.value.totalTransactions = Cardinality(Inbound) + Cardinality(Outbound)

\* categories[t] of a returned value, 0 when the key is absent
CategoryOf(c, t) == IF t \in DOMAIN c THEN c[t] ELSE 0

\* C18: in the value returned by getTransactionStatistics, categories[t] is the
\* sum of the amounts of the inbound and of the outbound completed in-range
\* transactions of type t (nothing is netted), and the categories add up to
\* totalIncome + totalExpenses (checked on stored records with a positive amount
\* between two different accounts).
C18_MergedCategories ==
  stats # NoStats /\ WellFormedRecords =>
    /\ \A t \in TransactionTypes :
         CategoryOf(stats.value.categories, t) =
           SumAmounts({i \in Inbound : transactions[i].transactionType = t})
           + SumAmounts({i \in Outbound : transactions[i].transactionType = t})
    /\ CategoryOf(stats.value.categories, "transfer")
         + CategoryOf(stats.value.categories, "nfc")
         = stats.value.totalIncome + stats.value.totalExpenses

\* C19: a call of getTransactionStatistics changes no balance and no transaction
\* record, and a call with the arguments of the previous call, the transaction
\* set being unchanged, returns the value the previous call returned.
C19_PureStatistics ==
  [][/\ balance' = balance
     /\ transactions' = transactions
     /\ (/\ stats # NoStats /\ WellFormedRecords
         /\ stats'.userId = stats.userId
         /\ stats'.startDate = stats.startDate
         /\ stats'.endDate = stats.endDate) => stats'.value = stats.value]_vars


\* C20: a step in which processScannedQR handles a scanned object whose type is
\* not "payment" starts no invocation of transferMoney and changes no account
\* balance and no transaction record.
C20_QRTypeCheck ==
  [][(/\ (scannedValue' # scannedValue \/ toast' # toast)
      /\ scannedValue'.json = "object"
      /\ scannedValue'.type # "payment")
     => /\ pc' = pc
        /\ req' = req
        /\ balance' = balance
        /\ transactions' = transactions]_vars

\* a code that names a receiver and an amount the signed-in sender can pay, but is
\* not of type "payment", was scanned and turned down
C20_Witness ==
  /\ scannedValue = [json |-> "object", type |-> "receipt", senderId |-> "",
                     receiverId |-> "B", amount |-> MaxAmount]
  /\ toast = "Invalid QR code: Not a payment QR"
  /\ balance = [a \in {"A", "B"} |-> IF a = "A" THEN MaxBalance ELSE 0]
  /\ balance0 = balance
  /\ transactions = <<>>
  /\ \A p \in Procs : pc[p] = "idle"


\* the tag read names another account as receiver and a positive amount
PayableTag ==
  nfcData.json = "object" /\ nfcData.receiverId = "B" /\ nfcData.amount > 0

\* C21: after a tag payload of type "payment" that lacks the description has
\* been read, no invocation has been started for it: no transaction record has
\* been inserted and no balance has changed (a payload that names a receiver and
\* a positive amount is enough to refute it).
C21_MissingFieldsRejected ==
  PayableTag /\ nfcData.type = "payment" /\ nfcData.description = "undefined" =>
    /\ \A p \in Procs : ~viaNFC[p]
    /\ transactions = <<>>
    /\ balance = balance0

\* C22: a tag payload whose type is not "payment" never reaches
\* processNFCPayment (a payload that is complete in every other field is enough
\* to refute it).
C22_NFCTypeCheck ==
  PayableTag /\ nfcData.type # "payment" /\ nfcData.description = "present" =>
    \A p \in Procs : ~viaNFC[p] /\ pc[p] = "idle"


\* C23: with "A" signed in, the request that a scanned code or a tag read hands
\* to the engine has senderId "A" and the receiver and amount of the payload,
\* whatever the payload's senderId field says; every transaction record names
\* "A" as sender, and a debit changes no balance but A's.
C23_SenderFromCaller ==
  [][/\ (pc[1] = "idle" /\ pc'[1] # "idle") =>
          LET payload == IF viaQR'[1] THEN scannedValue' ELSE nfcData'
          IN /\ req'[1].senderId = "A"
             /\ req'[1].receiverId = payload.receiverId
             /\ req'[1].amount = payload.amount
     /\ \A i \in 1..Len(transactions') : transactions'[i].senderId = "A"
     /\ (debited'[1] /\ ~debited[1]) =>
          \A a \in Users \ {"A"} : balance'[a] = balance[a]]_vars

\* a scanned payment code that names "B" as sender was paid from A's account
C23_Witness ==
  /\ scannedValue.type = "payment" /\ scannedValue.senderId = "B"
  /\ scannedValue.receiverId = "B"
  /\ StatusOf(1) = "completed"
  /\ transactions[1].senderId = "A" /\ transactions[1].amount > 0
  /\ balance["A"] = balance0["A"] - transactions[1].amount
  /\ balance["B"] = balance0["B"] + transactions[1].amount


\* C24: the step on which a transferMoney invocation ends leaves a result: with
\* success true it carries the id of a transaction whose status is completed;
\* with success false it carries a non-empty error and no transaction id.
C24_StructuredResult ==
  [][\A p \in Procs :
       (req[p].op = "transferMoney" /\ pc[p] # "done" /\ pc'[p] = "done") =>
         IF result'[p].success
           THEN /\ result'[p].transactionId \in 1..Len(transactions')
                /\ transactions'[result'[p].transactionId].status = "completed"
           ELSE /\ result'[p].error # ""
                /\ result'[p].transactionId = NoRef]_vars

\* one transferMoney invocation has returned success for a completed transaction,
\* the other has returned a processing failure
C24_Witness ==
  /\ BothReturned
  /\ \A p \in Procs : callbacks[p] = [onSuccess |-> 0, onError |-> 0]
  /\ result[1] = Success(transactionRef[1]) /\ StatusOf(1) = "completed"
  /\ result[2].error = "Transaction processing failed" /\ ~result[2].success


\* C25: an invocation issues at most one insert of a transaction record, at most
\* one sender update and at most one receiver update, whatever the store
\* answers; there are no more records than invocations that issued an insert.
C25_NoInternalRetry ==
  /\ \A p \in Procs : \A w \in Writes : issued[p][w] <= 1
  /\ Len(transactions) <= Cardinality({p \in Procs : issued[p]["addDoc"] = 1})

\* an invocation whose sender update was rejected has ended without a second
\* attempt and without issuing the receiver update
C25_Witness ==
  /\ pc[1] = "done"
  /\ issued[1] = [w \in Writes |-> IF w = "credit" THEN 0 ELSE 1]
  /\ ~debited[1]
  /\ StatusOf(1) \in {"failed", "pending"}


\* C26: an invocation that waits for a store operation issued after the insert
\* always has a next step, also when the store does not answer that operation
\* (the step that treats the silent phase as failed), so it does not wait
\* forever (a request with a positive amount between two different accounts is
\* enough to refute it).
C26_TimeoutDrivesToFailed ==
  \A p \in Procs :
    pc[p] \in AfterInsert /\ ValidReq(p) => ENABLED (TMBody(p) \/ NFCBody(p))


\* C27: a transaction record is inserted with status pending, and in every state
\* a record whose status is completed belongs to an invocation whose sender
\* update and receiver update have both been applied.
C27_StatusOrdering ==
  [][/\ Len(transactions') > Len(transactions) =>
          transactions'[Len(transactions')].status = "pending"
     /\ \A i \in 1..Len(transactions') :
          transactions'[i].status = "completed" =>
            \E p \in Procs : transactionRef'[p] = i /\ debited'[p] /\ credited'[p]]_vars

\* an NFC payment was completed after both of its balance writes
C27_Witness ==
  /\ StatusOf(1) = "completed"
  /\ transactions[transactionRef[1]].transactionType = "nfc"
  /\ debited[1] /\ credited[1]
  /\ callbacks[1].onSuccess = 1


\* C28: in every state, a transaction whose status is failed belongs to an
\* invocation whose receiver update has not been applied (checked on requests
\* with a positive amount between two different accounts).
C28_FailedNeverCredited ==
  WellFormedRecords => \A p \in Procs : StatusOf(p) = "failed" => ~credited[p]

\* completed transactions sent by / received by account a
CompletedFrom(a) ==
  {i \in TxIds : transactions[i].status = "completed" /\ transactions[i].senderId = a}
CompletedTo(a) ==
  {i \in TxIds : transactions[i].status = "completed" /\ transactions[i].receiverId = a}

\* C29: for every account, the completed outgoing amounts add up to no more than
\* its initial balance plus its completed incoming amounts (checked where it is
\* least demanding: every invocation has returned, every record is completed,
\* and the requests had a positive amount between two different accounts).
C29_NoDoubleSpend ==
  /\ BothReturned /\ WellFormedRecords
  /\ \A i \in TxIds : transactions[i].status = "completed"
  =>
    \A a \in Users :
      SumAmounts(CompletedFrom(a)) <= balance0[a] + SumAmounts(CompletedTo(a))


\* the callbacks invocation p has called so far
Called(p) == callbacks[p].onSuccess + callbacks[p].onError

\* C30: a processNFCPayment invocation calls no callback before it ends and
\* exactly one callback, once, in the step that ends it: onSuccess when that
\* step is the resolved write of status completed (the record is then
\* completed), onError in every other ending (a validation failure or a
\* rejected store operation); no callback is called afterwards.
C30_ExactlyOneCallback ==
  [][\A p \in Procs :
       /\ Called(p)' <= 1
       /\ pc'[p] # "done" => Called(p)' = 0
       /\ pc[p] = "done" => callbacks'[p] = callbacks[p]
       /\ (req[p].op = "processNFCPayment" /\ pc'[p] = "done") =>
            /\ Called(p)' = 1
            /\ callbacks'[p].onSuccess = 1 <=>
                 /\ pc[p] = "complete" /\ Resolves("complete")
                 /\ StatusOf(p)' = "completed"
            /\ callbacks'[p].onSuccess = 1 <=> result'[p].success
            /\ callbacks'[p].onError = 1 <=> ~result'[p].success]_vars

\* one NFC payment ended with onSuccess alone after its completed write, the
\* other ended with onError alone after a rejected store operation left its
\* record pending
C30_Witness ==
  /\ BothReturned
  /\ callbacks[1] = [onSuccess |-> 1, onError |-> 0]
  /\ StatusOf(1) = "completed"
  /\ transactions[transactionRef[1]].transactionType = "nfc"
  /\ callbacks[2] = [onSuccess |-> 0, onError |-> 1]
  /\ StatusOf(2) = "pending"
  /\ transactions[transactionRef[2]].transactionType = "nfc"
  /\ ~result[2].success

====
